---- MODULE Spec2Model ----
(***************************************************************************)
(* PortableCode (aiida/orm/nodes/data/code/portable.py): an executable     *)
(* plus its auxiliary files kept in the node's repository, with the        *)
(* attribute `filepath_executable` pointing at the entry file.             *)
(*                                                                         *)
(* Strings are sequences of one-character strings, so that pathlib's       *)
(* parsing (PurePath(value), str(path), is_absolute) is computed and not   *)
(* assumed.  Repository paths are sequences of path components.  The       *)
(* platform is POSIX.                                                      *)
(***************************************************************************)
EXTENDS Integers, Sequences, FiniteSets, TLC

VARIABLES code, handle, pc, call, last, origin

vars == <<code, handle, pc, call, last, origin>>

(***************************************************************************)
(* Bounds of the model.                                                    *)
(***************************************************************************)
\* longest string passed as `filepath_executable`
MaxLen == 3
\* file contents are bytes 0..MaxByte
MaxByte == 1

Chars == {"/", ".", "a"}

Bytes == 0..MaxByte

\* every string of at most n characters
Strings(n) == UNION {[1..k -> Chars] : k \in 0..n}

EntryStrings == Strings(MaxLen)

(***************************************************************************)
(* pathlib.PurePosixPath                                                   *)
(***************************************************************************)
\* index of the first "/" of s, or Len(s) + 1
FirstSlash(s) == IF \E i \in 1..Len(s) : s[i] = "/" THEN CHOOSE i \in 1..Len(s) : s[i] = "/" /\ \A j \in 1..(i - 1) : s[j] # "/" ELSE Len(s) + 1

RECURSIVE PurePathParts(_)
\* the components of PurePath(s): split on "/", "" and "." dropped
PurePathParts(s) ==
  IF s = <<>> THEN <<>>
  ELSE LET k == FirstSlash(s)
           comp == SubSeq(s, 1, k - 1)
           rest == SubSeq(s, k + 1, Len(s))
       IN (IF comp = <<>> \/ comp = <<".">> THEN <<>> ELSE <<comp>>) \o PurePathParts(rest)

\* the root of PurePath(s): "//" for exactly two leading slashes, "/" for one or for three and more
PurePathRoot(s) ==
  IF Len(s) >= 1 /\ s[1] = "/"
  THEN IF Len(s) >= 2 /\ s[2] = "/" /\ ~(Len(s) >= 3 /\ s[3] = "/") THEN <<"/", "/">> ELSE <<"/">>
  ELSE <<>>

RECURSIVE JoinParts(_)
\* "/".join(parts)
JoinParts(parts) ==
  IF parts = <<>> THEN <<>>
  ELSE IF Len(parts) = 1 THEN parts[1]
  ELSE parts[1] \o <<"/">> \o JoinParts(Tail(parts))

\* str(pathlib.PurePath(s))
PurePathStr(s) ==
  IF PurePathRoot(s) = <<>> /\ PurePathParts(s) = <<>> THEN <<".">>
  ELSE PurePathRoot(s) \o JoinParts(PurePathParts(s))

\* pathlib.PurePath(s).is_absolute()
is_absolute(s) == PurePathRoot(s) # <<>>

\* str(a / b): an absolute b replaces a
PurePathJoin(a, b) == IF is_absolute(b) THEN PurePathStr(b) ELSE PurePathStr(a \o <<"/">> \o b)

(***************************************************************************)
(* The data: directory trees on disk and the node.                         *)
(***************************************************************************)
NameA == <<"a">>

NameB == <<"b">>

\* the order in which names are listed and walked
NameOrder == <<NameA, NameB>>

\* the files a tree can hold, each a sequence of path components
FilePaths == {<<NameA>>, <<NameB>>, <<NameA, NameA>>}

IsPrefix(p, q) == Len(p) < Len(q) /\ SubSeq(q, 1, Len(p)) = p

\* no file is also a directory
Consistent(S) == \A p \in S, q \in S : ~IsPrefix(p, q)

EmptyTree == [p \in {} |-> 0]

Trees == UNION {[S -> Bytes] : S \in {T \in SUBSET FilePaths : Consistent(T)}}

Restrict(f, S) == [x \in S |-> f[x]]

\* the mapping f with key k set to v, as a dict assignment does
Put(f, k, v) == [x \in DOMAIN f \cup {k} |-> IF x = k THEN v ELSE f[x]]

\* the files of old with those of new written over them
Overlay(old, new) == [x \in DOMAIN old \cup DOMAIN new |-> IF x \in DOMAIN new THEN new[x] ELSE old[x]]

\* what `filepath_files` names on disk: nothing, a plain file, or a directory tree
SourceDirs == {[kind |-> "missing", files |-> EmptyTree], [kind |-> "file", files |-> EmptyTree]} \cup {[kind |-> "dir", files |-> t] : t \in Trees}

Labels == {<<"a">>, <<"b">>}

\* pathlib.Path().cwd()
Cwd == <<"/", "a">>

_KEY_ATTRIBUTE_FILEPATH_EXECUTABLE == "filepath_executable"

\* a node fresh out of super().__init__(**kwargs): no attribute, an empty repository
NewNode(label) == [attributes |-> {}, repository |-> EmptyTree, dict |-> {}, label |-> label]

NoNode == NewNode(<<>>)

NoOrigin == [kind |-> "missing", files |-> EmptyTree]

NoCall == [op |-> "none"]

NoResult == [op |-> "none", raised |-> "none", out |-> <<>>]

(***************************************************************************)
(* The collaborators: the attribute store, the repository, the folder.     *)
(***************************************************************************)
\* base.attributes.get(key): the value, or absent (None)
attributes_get(self, key) ==
  IF \E kv \in self.attributes : kv[1] = key
  THEN [absent |-> FALSE, value |-> (CHOOSE kv \in self.attributes : kv[1] = key)[2]]
  ELSE [absent |-> TRUE, value |-> <<>>]

\* base.attributes.set(key, value)
attributes_set(self, key, value) == [self EXCEPT !.attributes = {kv \in @ : kv[1] # key} \cup {<<key, value>>}]

\* base.repository.list_object_names(): the relative path string of every stored object
list_object_names(self) == {JoinParts(p) : p \in DOMAIN self.repository}

\* base.repository.get_object_content(path, mode='rb')
get_object_content(self, path) ==
  IF PurePathParts(path) \in DOMAIN self.repository
  THEN [raised |-> "none", content |-> self.repository[PurePathParts(path)]]
  ELSE [raised |-> "FileNotFoundError", content |-> 0]

\* base.repository.put_object_from_tree(filepath): every file of the tree at its
\* relative path, or a StorageError with some of the files ingested; a path that
\* names no directory yields no file
put_object_from_tree(self, dir) ==
  {[raised |-> "none", self |-> [self EXCEPT !.repository = Overlay(@, dir.files)]]}
  \cup {[raised |-> "StorageError", self |-> [self EXCEPT !.repository = Overlay(@, Restrict(dir.files, S))]] : S \in {T \in SUBSET DOMAIN dir.files : T # DOMAIN dir.files \/ T = {}}}

ChildFiles(self, root) == {q[Len(q)] : q \in {p \in DOMAIN self.repository : Len(p) = Len(root) + 1 /\ SubSeq(p, 1, Len(root)) = root}}

ChildDirs(self, root) == {q[Len(root) + 1] : q \in {p \in DOMAIN self.repository : Len(p) > Len(root) + 1 /\ SubSeq(p, 1, Len(root)) = root}}

Sorted(S) == SelectSeq(NameOrder, LAMBDA n : n \in S)

RECURSIVE walk(_, _)
RECURSIVE WalkEach(_, _, _)
\* base.repository.walk(): top-down, depth-first (root, dirnames, filenames) groups
walk(self, root) ==
  <<[root |-> root, dirnames |-> Sorted(ChildDirs(self, root)), filenames |-> Sorted(ChildFiles(self, root))]>>
  \o WalkEach(self, root, Sorted(ChildDirs(self, root)))

WalkEach(self, root, dirnames) ==
  IF dirnames = <<>> THEN <<>>
  ELSE walk(self, root \o <<dirnames[1]>>) \o WalkEach(self, root, Tail(dirnames))

\* folder.get_content_list(): the relative paths staged in the folder
get_content_list(folder) == folder

\* the sets of staged relative paths
Folders == SUBSET {JoinParts(p) : p \in FilePaths}

(***************************************************************************)
(* PortableCode: each method maps the node (and its arguments) to the      *)
(* node afterwards and the exception raised, "none" for a normal return.   *)
(***************************************************************************)
\* Model.validate_filepath_files
validate_filepath_files(value) ==
  IF value.kind = "missing" THEN [raised |-> "ValueError", message |-> "does not exist"]
  ELSE IF value.kind # "dir" THEN [raised |-> "ValueError", message |-> "is not a directory"]
  ELSE [raised |-> "none", message |-> ""]

\* the getter of filepath_executable: the PurePath, held as its str()
filepath_executable(self) ==
  LET got == attributes_get(self, _KEY_ATTRIBUTE_FILEPATH_EXECUTABLE)
  IN IF got.absent THEN [raised |-> "TypeError", path |-> <<>>]
     ELSE [raised |-> "none", path |-> PurePathStr(got.value)]

\* the setter with the assignment moved before the is_absolute test
filepath_executable_set_then_check(self, value) ==
  IF is_absolute(value) THEN [raised |-> "ValueError", self |-> attributes_set(self, _KEY_ATTRIBUTE_FILEPATH_EXECUTABLE, value)]
  ELSE [raised |-> "none", self |-> attributes_set(self, _KEY_ATTRIBUTE_FILEPATH_EXECUTABLE, value)]

\* the setter of filepath_executable; values are str, so type_check(value, str) passes
filepath_executable_set(self, value) ==
  IF is_absolute(value) THEN [raised |-> "ValueError", self |-> self]
  ELSE [raised |-> "none", self |-> attributes_set(self, _KEY_ATTRIBUTE_FILEPATH_EXECUTABLE, value)]

\* _validate comparing the attribute as stored, not str(PurePath)
validate_raw_string(self) ==
  LET got == attributes_get(self, _KEY_ATTRIBUTE_FILEPATH_EXECUTABLE)
  IN IF got.absent
     THEN [raised |-> "ValidationError", message |-> "not set", listed |-> FALSE, self |-> self]
     ELSE IF got.value \notin list_object_names(self)
     THEN [raised |-> "ValidationError", message |-> "not uploaded", listed |-> TRUE, self |-> self]
     ELSE [raised |-> "none", message |-> "", listed |-> TRUE, self |-> self]

\* _validate storing the normalised path back into the attribute
validate_normalising(self) ==
  LET got == filepath_executable(self)
  IN IF got.raised = "TypeError"
     THEN [raised |-> "ValidationError", message |-> "not set", listed |-> FALSE, self |-> self]
     ELSE IF got.path \notin list_object_names(self)
     THEN [raised |-> "ValidationError", message |-> "not uploaded", listed |-> TRUE, self |-> self]
     ELSE [raised |-> "none", message |-> "", listed |-> TRUE, self |-> attributes_set(self, _KEY_ATTRIBUTE_FILEPATH_EXECUTABLE, got.path)]

\* _validate without the except clause: the listing comes first and the TypeError escapes
validate_uncaught(self) ==
  LET got == filepath_executable(self)
  IN IF got.raised = "TypeError"
     THEN [raised |-> "TypeError", message |-> "", listed |-> TRUE, self |-> self]
     ELSE IF got.path \notin list_object_names(self)
     THEN [raised |-> "ValidationError", message |-> "not uploaded", listed |-> TRUE, self |-> self]
     ELSE [raised |-> "none", message |-> "", listed |-> TRUE, self |-> self]

\* _validate; the parent class's _validate and the listing itself are taken to succeed
validate(self) ==
  LET got == filepath_executable(self)
  IN IF got.raised = "TypeError"
     THEN [raised |-> "ValidationError", message |-> "not set", listed |-> FALSE, self |-> self]
     ELSE IF got.path \notin list_object_names(self)
     THEN [raised |-> "ValidationError", message |-> "not uploaded", listed |-> TRUE, self |-> self]
     ELSE [raised |-> "none", message |-> "", listed |-> TRUE, self |-> self]

\* get_executable
get_executable(self) == filepath_executable(self)

\* validate_working_directory matching a staged path that merely starts with the executable
validate_working_directory_prefix(self, folder) ==
  LET got == filepath_executable(self)
  IN IF got.raised # "none" THEN [raised |-> got.raised, self |-> self]
     ELSE IF \E f \in get_content_list(folder) : Len(f) >= Len(got.path) /\ SubSeq(f, 1, Len(got.path)) = got.path
     THEN [raised |-> "PluginInternalError", self |-> self]
     ELSE [raised |-> "none", self |-> self]

\* validate_working_directory
validate_working_directory(self, folder) ==
  LET got == filepath_executable(self)
  IN IF got.raised # "none" THEN [raised |-> got.raised, self |-> self]
     ELSE IF got.path \in get_content_list(folder) THEN [raised |-> "PluginInternalError", self |-> self]
     ELSE [raised |-> "none", self |-> self]

\* __init__ up to the assignment of filepath_executable: super().__init__(**kwargs),
\* type_check(filepath_files, pathlib.Path), the setter
init_setter(value, isPath, label) ==
  IF ~isPath THEN [raised |-> "TypeError", self |-> NewNode(label)]
  ELSE filepath_executable_set(NewNode(label), value)

\* a constructor that swallows the failure of put_object_from_tree
init_result_swallowed(put) == [returned |-> TRUE, raised |-> "none", self |-> put.self]

\* what the constructor call yields once put_object_from_tree has returned or raised:
\* an exception leaves the constructor and the caller gets no object
init_result(put) == [returned |-> put.raised = "none", raised |-> put.raised, self |-> put.self]

\* _prepare_yaml up to the setattr: the target, and the transient `filepath_files`
prepare_yaml_enter(self, cwdOk) ==
  IF ~cwdOk THEN [raised |-> "FileNotFoundError", target |-> <<>>, self |-> self]
  ELSE [raised |-> "none", target |-> PurePathJoin(Cwd, self.label), self |-> [self EXCEPT !.dict = @ \cup {"filepath_files"}]]

\* the files node_repository.walk() yields, group by group
GroupFiles(group) == [i \in 1..Len(group.filenames) |-> [root |-> group.root, filename |-> group.filenames[i]]]

RECURSIVE WalkFiles(_)
WalkFiles(groups) == IF groups = <<>> THEN <<>> ELSE GroupFiles(groups[1]) \o WalkFiles(Tail(groups))

\* the file name alone, the directory dropped
rel_output_file_path_flat(root, filename) == <<filename>>

\* root.relative_to(path) / filename, with path = '.'
rel_output_file_path(root, filename) == root \o <<filename>>

RECURSIVE dump_files(_, _, _, _, _)
\* the loop of _prepare_yaml over the walked files; the read of file number failAt
\* raises StorageError (0: no read fails)
dump_files(self, target, files, failAt, acc) ==
  IF files = <<>> THEN acc
  ELSE LET rel == rel_output_file_path(files[1].root, files[1].filename)
           full_output_file_path == PurePathJoin(target, JoinParts(rel))
           parent == PurePathJoin(target, JoinParts(files[1].root))
           got == IF failAt = 1 THEN [raised |-> "StorageError", content |-> 0] ELSE get_object_content(self, JoinParts(rel))
       IN IF got.raised # "none"
          THEN [raised |-> got.raised, extra_files |-> acc.extra_files, dirs |-> acc.dirs \cup {parent}]
          ELSE dump_files(self, target, Tail(files), failAt - 1, [raised |-> "none", extra_files |-> Put(acc.extra_files, full_output_file_path, got.content), dirs |-> acc.dirs \cup {parent}])

\* the body of the try of _prepare_yaml after the setattr
prepare_yaml_body(self, target, superOk, failAt) ==
  IF ~superOk THEN [raised |-> "Exception", extra_files |-> EmptyTree, dirs |-> {}]
  ELSE dump_files(self, target, WalkFiles(walk(self, <<>>)), failAt, [raised |-> "none", extra_files |-> EmptyTree, dirs |-> {}])

\* no delattr
prepare_yaml_finally_kept(self) == self

\* the finally of _prepare_yaml: delattr, an absent attribute suppressed
prepare_yaml_finally(self) == [self EXCEPT !.dict = @ \ {"filepath_files"}]

(***************************************************************************)
(* The state machine.  `code` is the node, `handle` whether a caller holds *)
(* it, `pc` the position inside a call in progress, `call` its frame,      *)
(* `last` the outcome of the call that returned last, `origin` the         *)
(* directory the held node was constructed from.                           *)
(***************************************************************************)
Init ==
  /\ code = NoNode
  /\ handle = FALSE
  /\ pc = "idle"
  /\ call = NoCall
  /\ last = NoResult
  /\ origin = NoOrigin

\* a constructor call that raised: nothing is returned and the node is unreachable
InitRaised(raised, dir, via) ==
  /\ code' = NoNode
  /\ handle' = FALSE
  /\ pc' = "idle"
  /\ call' = NoCall
  /\ origin' = NoOrigin
  /\ last' = [op |-> "create", raised |-> raised, out |-> [via |-> via, kind |-> dir.kind, filepath_executable |-> <<>>]]

InitBegin(value, dir, isPath, label, via) ==
  LET r == init_setter(value, isPath, label)
  IN IF r.raised # "none" THEN InitRaised(r.raised, dir, via)
     ELSE /\ code' = r.self
          /\ pc' = "init_put"
          /\ call' = [op |-> "init", via |-> via, filepath_executable |-> value, filepath_files |-> dir]
          /\ last' = NoResult
          /\ UNCHANGED <<handle, origin>>

\* PortableCode(filepath_executable=value, filepath_files=dir)
Create ==
  /\ pc = "idle"
  /\ ~handle
  /\ \E value \in EntryStrings, dir \in SourceDirs, isPath \in BOOLEAN, label \in Labels :
       InitBegin(value, dir, isPath, label, "init")

\* construction from a validated Model
ModelCreate ==
  /\ pc = "idle"
  /\ ~handle
  /\ \E value \in EntryStrings, dir \in SourceDirs, label \in Labels :
       IF validate_filepath_files(dir).raised # "none"
       THEN InitRaised(validate_filepath_files(dir).raised, dir, "model")
       ELSE InitBegin(value, dir, TRUE, label, "model")

\* the last statement of __init__
InitPutTree ==
  /\ pc = "init_put"
  /\ \E put \in put_object_from_tree(code, call.filepath_files) :
       IF init_result(put).returned
       THEN /\ code' = init_result(put).self
            /\ handle' = TRUE
            /\ pc' = "idle"
            /\ origin' = call.filepath_files
            /\ last' = [op |-> "create", raised |-> init_result(put).raised, out |-> [via |-> call.via, kind |-> call.filepath_files.kind, filepath_executable |-> call.filepath_executable]]
            /\ call' = NoCall
       ELSE InitRaised(init_result(put).raised, call.filepath_files, call.via)

\* code.filepath_executable = value
SetExecutable ==
  /\ pc = "idle"
  /\ handle
  /\ \E value \in EntryStrings :
       /\ code' = filepath_executable_set(code, value).self
       /\ last' = [op |-> "set", raised |-> filepath_executable_set(code, value).raised, out |-> [slash |-> value # <<>> /\ value[1] = "/"]]
  /\ UNCHANGED <<handle, pc, call, origin>>

\* code._validate()
Validate ==
  /\ pc = "idle"
  /\ handle
  /\ code' = validate(code).self
  /\ last' = [op |-> "validate", raised |-> validate(code).raised, out |-> [message |-> validate(code).message, listed |-> validate(code).listed, again |-> last.op = "validate"]]
  /\ UNCHANGED <<handle, pc, call, origin>>

\* code.validate_working_directory(folder)
ValidateWorkingDirectory ==
  /\ pc = "idle"
  /\ handle
  /\ \E folder \in Folders :
       /\ code' = validate_working_directory(code, folder).self
       /\ last' = [op |-> "validate_working_directory", raised |-> validate_working_directory(code, folder).raised, out |-> [folder |-> folder]]
  /\ UNCHANGED <<handle, pc, call, origin>>

\* code._prepare_yaml(): the target and the setattr
ExportBegin ==
  /\ pc = "idle"
  /\ handle
  /\ \E cwdOk \in BOOLEAN :
       /\ code' = prepare_yaml_enter(code, cwdOk).self
       /\ pc' = IF prepare_yaml_enter(code, cwdOk).raised = "none" THEN "yaml" ELSE "finally"
       /\ call' = [op |-> "export", target |-> prepare_yaml_enter(code, cwdOk).target, raised |-> prepare_yaml_enter(code, cwdOk).raised, extra_files |-> EmptyTree, dirs |-> {}, fault |-> ~cwdOk]
  /\ last' = NoResult
  /\ UNCHANGED <<handle, origin>>

\* super()._prepare_yaml() and the walk
ExportBody ==
  /\ pc = "yaml"
  /\ \E superOk \in BOOLEAN, failAt \in 0..Cardinality(DOMAIN code.repository) :
       call' = [call EXCEPT !.raised = prepare_yaml_body(code, call.target, superOk, failAt).raised, !.extra_files = prepare_yaml_body(code, call.target, superOk, failAt).extra_files, !.dirs = prepare_yaml_body(code, call.target, superOk, failAt).dirs, !.fault = ~superOk \/ failAt # 0]
  /\ pc' = "finally"
  /\ UNCHANGED <<code, handle, last, origin>>

\* the finally clause, then the return or the exception
ExportFinally ==
  /\ pc = "finally"
  /\ code' = prepare_yaml_finally(code)
  /\ pc' = "idle"
  /\ last' = [op |-> "export", raised |-> call.raised, out |-> [target |-> call.target, extra_files |-> IF call.raised = "none" THEN call.extra_files ELSE EmptyTree, dirs |-> call.dirs, fault |-> call.fault]]
  /\ call' = NoCall
  /\ UNCHANGED <<handle, origin>>

Next ==
  \/ Create
  \/ ModelCreate
  \/ InitPutTree
  \/ SetExecutable
  \/ Validate
  \/ ValidateWorkingDirectory
  \/ ExportBegin
  \/ ExportBody
  \/ ExportFinally

Spec == Init /\ [][Next]_vars

(***************************************************************************)
(* A node that reaches the methods without the attribute (the attribute    *)
(* store answers `absent`), with any repository content.                   *)
(***************************************************************************)
InitUnset ==
  /\ \E t \in Trees, label \in Labels :
       /\ code = [NewNode(label) EXCEPT !.repository = t]
       /\ origin = [kind |-> "dir", files |-> t]
  /\ handle = TRUE
  /\ pc = "idle"
  /\ call = NoCall
  /\ last = NoResult

NextUnset ==
  \/ SetExecutable
  \/ Validate
  \/ ValidateWorkingDirectory
  \/ ExportBegin
  \/ ExportBody
  \/ ExportFinally

SpecUnset == InitUnset /\ [][NextUnset]_vars

(***************************************************************************)
(* The properties.                                                         *)
(***************************************************************************)
\* the values recorded under the attribute key
Recorded(self) == {kv[2] : kv \in {x \in self.attributes : x[1] = _KEY_ATTRIBUTE_FILEPATH_EXECUTABLE}}

\* the stored objects whose relative path string is the canonical string of a recorded value
Matches(self) == {p \in DOMAIN self.repository : \E v \in Recorded(self) : JoinParts(p) = PurePathStr(v)}

StartsWithSlash(s) == s # <<>> /\ s[1] = "/"

\* C1: validate succeeds if and only if the canonical string of the recorded entry
\* path equals the relative path string of exactly one stored object, files in
\* sub-directories included; in every other case it fails with ValidationError.
C1_ValidateIffStored ==
  last.op = "validate" =>
    /\ last.raised \in {"none", "ValidationError"}
    /\ last.raised = "none" <=> Cardinality(Matches(code)) = 1

C1_Witness ==
  /\ last.op = "validate"
  /\ last.raised = "none"
  /\ \E v \in Recorded(code) : Len(PurePathParts(v)) = 2

\* C2: setting the entry pointer to a syntactically absolute path always fails with
\* ValueError, whatever the store holds, and leaves the recorded entry path and the
\* stored contents as they were.
C2_AbsoluteRejected ==
  [][(last'.op = "set" /\ last'.out.slash) => (last'.raised = "ValueError" /\ code' = code /\ origin' = origin)]_vars

C2_Witness ==
  /\ last.op = "set"
  /\ last.out.slash
  /\ last.raised = "ValueError"
  /\ Recorded(code) # {}
  /\ DOMAIN code.repository # {}

\* C3: construction is atomic for the caller: a held bundle always has its entry path
\* recorded and the whole tree ingested; a constructor call that raised (on the
\* entry path or in the ingest) returned no bundle.
C3_ConstructionAtomic ==
  /\ handle => (Recorded(code) # {} /\ code.repository = origin.files)
  /\ (pc = "idle" /\ ~handle) => code = NoNode
  /\ last.op = "create" =>
       /\ last.raised = "none" <=> handle
       /\ last.raised = "none" => Recorded(code) = {last.out.filepath_executable}

C3_Witness ==
  /\ last.op = "create"
  /\ last.raised = "StorageError"
  /\ last.out.kind = "dir"
  /\ ~handle
  /\ code = NoNode

\* C4: create fails with an input error (ValueError or TypeError) whenever the source
\* directory does not exist or is not a directory, and then no bundle is returned.
C4_MissingDirectoryRejected ==
  (last.op = "create" /\ last.out.kind # "dir") => (last.raised \in {"ValueError", "TypeError"} /\ ~handle)

\* C5: validate_working_directory fails with PluginInternalError if and only if the
\* string of the executable path is a member of the staged set (equality of whole
\* strings); otherwise it returns; either way the node is left as it was.
C5_ConflictIffMember ==
  [][last'.op = "validate_working_directory" =>
       /\ code' = code
       /\ origin' = origin
       /\ last'.raised \in {"none", "PluginInternalError"}
       /\ last'.raised = "PluginInternalError" <=> (\E v \in Recorded(code) : PurePathStr(v) \in last'.out.folder)]_vars

C5_Witness ==
  /\ last.op = "validate_working_directory"
  /\ last.raised = "PluginInternalError"
  /\ Cardinality(last.out.folder) >= 2
  /\ \E v \in Recorded(code) : v # PurePathStr(v)

\* the key the file p of the tree is expected under
ExpectedKey(target, p) == target \o <<"/">> \o JoinParts(p)

C7_TransientCleared ==
  pc \notin {"yaml", "finally"} => "filepath_files" \notin code.dict

C7_Witness ==
  /\ last.op = "export"
  /\ last.raised = "StorageError"
  /\ Cardinality(last.out.dirs) >= 1
  /\ pc = "idle"
  /\ code.dict = {}

\* C8: validate changes neither the recorded entry path nor the stored contents, and
\* a validate right after a validate has the same outcome.
C8_ValidateReadOnly ==
  [][last'.op = "validate" =>
       /\ code' = code
       /\ origin' = origin
       /\ last.op = "validate" => (last'.raised = last.raised /\ last'.out.message = last.out.message)]_vars

C8_Witness ==
  /\ last.op = "validate"
  /\ last.out.again
  /\ last.raised = "ValidationError"
  /\ DOMAIN code.repository # {}

\* C9: with the entry path attribute absent, validate fails with the ValidationError
\* "not set", no other exception escapes, and the repository is not listed.
C9_UnsetIsValidationError ==
  (last.op = "validate" /\ Recorded(code) = {}) =>
    (last.raised = "ValidationError" /\ last.out.message = "not set" /\ ~last.out.listed)

C9_Witness ==
  /\ last.op = "validate"
  /\ Recorded(code) = {}
  /\ last.raised = "ValidationError"
  /\ DOMAIN code.repository # {}

\* C10: in every state reached through create and the setter, the recorded entry
\* path is never absolute and never empty.
C10_EntryRelativeNonEmpty ==
  handle => \A v \in Recorded(code) : ~StartsWithSlash(v) /\ v # <<>>

====
